---- MODULE Spec2Model ----
(***************************************************************************)
(* A model of the SimplePlayback player (src/player.h, src/networkReader.h *)
(* and src/main.cpp).                                                      *)
(*                                                                         *)
(* Player has no thread of its own: play() runs the whole pump loop on the *)
(* thread that calls it, as a chain of self-calls (player.h:137).  The     *)
(* flag `paused` that ends the chain can only be set by a pause() issued   *)
(* from another thread, so the model has two caller threads: the thread of *)
(* main(), free to call any operation of the public API, and a second one  *)
(* that calls pause(), setMixingLevel() and close() while the first is     *)
(* inside play() or outside it.  A thread executes play() in               *)
(* steps of one or a few source statements (the labels are line numbers of *)
(* player.h); pause(), setMixingLevel() and open() are one step each and   *)
(* close() is one step per stream.                                         *)
(*                                                                         *)
(* Bytes are signed chars, -128..127.  A buffer cell that was allocated    *)
(* with new[] and never stored to holds an indeterminate value, written    *)
(* Undef; arithmetic on Undef gives Undef.  Levels are whole doubles and a  *)
(* gain (1 -+ level) / 2 is kept as its numerator over GainDen, which is   *)
(* exact.                                                                  *)
(***************************************************************************)
EXTENDS Integers, Sequences, FiniteSets, TLC

\* ------------------------------------------------------------ bounds
\* samples requested from each source per cycle (72 at player.h:66)
samples == 2
\* longest network waveform (audio2_s16le_mono_48k.raw), in samples
MaxNet == 3
\* longest local waveform (audio1_s16le_mono_48k.raw), in samples
MaxLoc == 1
\* setMixingLevel is called with the levels -MaxLevel, ..., -1.0, 0.0, 1.0, ..., MaxLevel
MaxLevel == 2
\* the clock advances up to MaxTime milliseconds
MaxTime == 1
\* the API calls made after open()
MaxCalls == 3

\* ------------------------------------------------------------ constants
\* const size_t blockSize = 8192 * 4 (player.h:213)
blockSize == 32768
\* const size_t blockSize = 8192 * 4 (networkReader.h:61)
nrBlockSize == 32768
\* largest value of `int writtenSamples` (player.h:37)
IntMax == 2147483647
\* sizeof(int16_t)
SampleBytes == 2
\* the divisor of (1.0 - level) / 2: a gain is kept as its numerator over GainDen
GainDen == 2
\* the indeterminate content of a cell (or variable) never stored to
Undef == 999

IntMin == (-IntMax) - 1
Threads == {1, 2}
\* the threads that call play(): the thread of main()
Players == {1}
Levels == (-MaxLevel)..MaxLevel

Min(a, b) == IF a <= b THEN a ELSE b
Max(a, b) == IF a >= b THEN a ELSE b

VARIABLES
    exited,          \* the process has called exit(1)
    netFileOk,       \* audio2_s16le_mono_48k.raw can be opened
    locFileOk,       \* audio1_s16le_mono_48k.raw can be opened
    locFile,         \* the samples audio1_s16le_mono_48k.raw holds
    opened,          \* open() has run
    now,             \* the clock, milliseconds since stopWatch.m_start
    nr_saw,          \* nr.m_saw
    nr_sawIndex,     \* nr.m_sawIndex
    m_saw,           \* Player::m_saw
    m_sawIndex,      \* Player::m_sawIndex
    networkBuffer,   \* Player::networkBuffer, networkBytes cells
    playerBuffer,    \* Player::playerBuffer, playerBytes cells
    mix,             \* Player::mix, the cells of the latest allocation
    networkLevel,    \* Player::networkLevel, numerator over GainDen
    playerLevel,     \* Player::playerLevel, numerator over GainDen
    levelArg,        \* the argument of the latest setMixingLevel call
    writtenSamples,  \* Player::writtenSamples
    paused,          \* Player::paused
    timePaused,      \* Player::timePaused
    pausedSample,    \* Player::pausedSample
    sink,            \* the bytes of audio_output.raw
    stats,           \* the records of realtime_stats.txt
    sinkIsOpen,      \* sink.is_open()
    statsIsOpen,     \* stats.is_open()
    pc,              \* per thread: where it is in the API
    depth,           \* per thread: number of active play() activations
    networkRead,     \* per thread: local networkRead of the innermost play()
    playerRead,      \* per thread: local playerRead of the innermost play()
    netGainRead,     \* per thread: networkLevel as the network loop read it
    calls,           \* number of API calls made after open()
    delivered,       \* history: the samples each source's read has copied out
    eos              \* history: a cycle has ended in which both reads returned 0

vars == <<exited, netFileOk, locFileOk, locFile, opened, now, nr_saw, nr_sawIndex,
          m_saw, m_sawIndex, networkBuffer, playerBuffer, mix, networkLevel,
          playerLevel, levelArg, writtenSamples, paused, timePaused,
          pausedSample, sink, stats, sinkIsOpen, statsIsOpen, pc, depth,
          networkRead, playerRead, netGainRead, calls, delivered, eos>>

srcVars == <<nr_saw, nr_sawIndex, m_saw, m_sawIndex>>
fileVars == <<netFileOk, locFileOk, locFile>>
sinkVars == <<sink, stats, sinkIsOpen, statsIsOpen>>
gainVars == <<networkLevel, playerLevel, levelArg>>
pauseVars == <<paused, timePaused, pausedSample>>
bufVars == <<networkBuffer, playerBuffer, mix>>
localVars == <<networkRead, playerRead, netGainRead>>
histVars == <<delivered, eos>>

\* ------------------------------------------------------------ bytes and samples
\* conversion of an int to char: modulo 2^8
ToChar(x) == ((x + 128) % 256) - 128
\* conversion of an int to int16_t: modulo 2^16
ToInt16(x) == ((x + 32768) % 65536) - 32768
\* int addition of a non-negative d, wrapping at 2^32
AddInt32(x, d) == IF x > IntMax - d THEN IntMin + (d - (IntMax - x) - 1) ELSE x + d
\* conversion of a double num/den to an integer type: truncation toward zero
Trunc(num, den) == IF num >= 0 THEN num \div den ELSE -((-num) \div den)

\* the two bytes of a little-endian int16_t
LoByte(s) == ToChar(s % 256)
HiByte(s) == (s - (s % 256)) \div 256
\* the int16_t two little-endian bytes stand for
SampleOf(lo, hi) == hi * 256 + (lo % 256)

\* the waveforms the two files hold: sample i (from 1) of each
NetSample(i) == ToInt16(i * 9001 + 300)
LocSample(i) == ToInt16(40000 - i * 7001)
NetWave(n) == [i \in 1..n |-> NetSample(i)]
LocWave(n) == [i \in 1..n |-> LocSample(i)]

\* std::copy_n(saw.begin() + idx, n, (int16_t*)buf): the first 2n cells of buf
CopySamples(saw, idx, n, buf) ==
    [j \in 1..Len(buf) |->
        IF j <= SampleBytes * n
        THEN LET s == saw[idx + ((j + 1) \div 2)]
             IN IF j % 2 = 1 THEN LoByte(s) ELSE HiByte(s)
        ELSE buf[j]]

\* the first n int16_t a buffer holds
Samples(buf, n) == [i \in 1..n |-> SampleOf(buf[2 * i - 1], buf[2 * i])]

\* new char[n]
NewChars(n) == [j \in 1..n |-> Undef]

\* ------------------------------------------------------------ source reads
\* size_t samplesRemaining and maxReadSize of Player::read
ReadSize(size, idx, maxBytes) ==
    Min(Min(maxBytes, blockSize), (size - idx) * SampleBytes)
\* the byte count Player::read returns
PlayerReadBytes(size, idx, maxBytes) ==
    IF size - idx = 0 THEN 0
    ELSE (ReadSize(size, idx, maxBytes) \div SampleBytes) * SampleBytes

\* maxReadSize of NetworkReader::read
NrReadSize(size, idx, maxBytes) ==
    Min(Min(maxBytes, nrBlockSize), (size - idx) * SampleBytes)
\* the byte count NetworkReader::read returns
NrReadBytes(size, idx, maxBytes) ==
    IF size - idx = 0 THEN 0
    ELSE (NrReadSize(size, idx, maxBytes) \div SampleBytes) * SampleBytes

\* a read that leaves the cursor where it was
AdvanceStuck(idx, nSamples) == idx
\* m_sawIndex += nSamples
Advance(idx, nSamples) == idx + nSamples

\* networkBytes and playerBytes as open() sets them
networkBytes == samples * SampleBytes
playerBytes == samples * SampleBytes

\* ------------------------------------------------------------ gain law
\* a clamp that forgets the upper end of the range
ClampLevelLowOnly(k) == IF k <= -1 THEN -1 ELSE k
\* level = (level <= -1.0) ? -1.0 : level; level = (level >= 1.0) ? 1.0 : level
ClampLevel(k) ==
    LET lo == IF k <= -1 THEN -1 ELSE k
    IN IF lo >= 1 THEN 1 ELSE lo
\* networkLevel = (1.0 - level) / 2, as a numerator over GainDen
NetworkGain(k) == 1 - ClampLevel(k)
\* playerLevel = (1.0 + level) / 2, as a numerator over GainDen
PlayerGain(k) == 1 + ClampLevel(k)

\* ------------------------------------------------------------ mixing
\* (char)(gain * (double)b)
Scale(gain, b) == Trunc(gain * b, GainDen)
\* the network loop, player.h:113-118; a store outside the allocation is dropped
NetworkLoop(m, buf, nBytes, gain) ==
    [p \in 1..Len(m) |->
        IF p <= 2 * nBytes THEN Scale(gain, buf[(p + 1) \div 2]) ELSE m[p]]
\* mix[pos] += (char)bit
AddChar(cell, c) == IF cell = Undef THEN Undef ELSE ToChar(cell + c)
\* the player loop, player.h:119-124
PlayerLoop(m, buf, nBytes, gain) ==
    [p \in 1..Len(m) |->
        IF p <= 2 * nBytes THEN AddChar(m[p], Scale(gain, buf[(p + 1) \div 2]))
        ELSE m[p]]
\* the count bytes sink.write(mix, count) takes from mix
WrittenBytes(m, count) ==
    [p \in 1..count |-> IF p <= Len(m) THEN m[p] ELSE Undef]

\* ------------------------------------------------------------ initial state
\* the values an int that was never initialised may hold
UninitInts == {0, IntMax - 2}
\* the lengths of the two waveforms, in samples
NetLens == {0, MaxNet}
LocLens == 0..MaxLoc

\* Player pl; -- the constructors of Player, StopWatch and NetworkReader.
\* NetworkReader::initWaveform loads audio2 or ends the process.
Init ==
    /\ netFileOk \in BOOLEAN
    /\ locFileOk \in BOOLEAN
    /\ \E n \in LocLens : locFile = IF locFileOk THEN LocWave(n) ELSE << >>
    /\ \E n \in NetLens : nr_saw = IF netFileOk THEN NetWave(n) ELSE << >>
    /\ exited = ~netFileOk
    /\ opened = FALSE
    /\ calls = 0
    /\ delivered = [net |-> << >>, loc |-> << >>]
    /\ eos = FALSE
    /\ now = 0
    /\ nr_sawIndex = 0
    /\ m_saw = << >>
    /\ m_sawIndex = 0
    /\ networkBuffer = << >>
    /\ playerBuffer = << >>
    /\ mix = << >>
    /\ networkLevel = Undef
    /\ playerLevel = Undef
    /\ levelArg = Undef
    /\ writtenSamples \in UninitInts
    /\ paused \in BOOLEAN
    /\ timePaused = Undef
    /\ pausedSample = Undef
    /\ sink = << >>
    /\ stats = << >>
    /\ sinkIsOpen = FALSE
    /\ statsIsOpen = FALSE
    /\ pc = [t \in Threads |-> "idle"]
    /\ depth = [t \in Threads |-> 0]
    /\ networkRead = [t \in Threads |-> 0]
    /\ playerRead = [t \in Threads |-> 0]
    /\ netGainRead = [t \in Threads |-> 0]

\* a thread that is in no API call may start one on an opened player
CanCall(t) == ~exited /\ opened /\ pc[t] = "idle" /\ calls < MaxCalls

\* ------------------------------------------------------------ the clock
\* time passes
Tick ==
    /\ ~exited
    /\ now < MaxTime
    /\ now' = now + 1
    /\ UNCHANGED <<exited, fileVars, opened, srcVars, bufVars, gainVars,
                   writtenSamples, pauseVars, sinkVars, pc, depth, localVars,
                   calls, histVars>>

\* ------------------------------------------------------------ open, close
\* Player::open with Player::init and setMixingLevel(0)
Open(t) ==
    /\ ~exited /\ ~opened /\ pc[t] = "idle"
    /\ opened' = TRUE
    /\ sinkIsOpen' = TRUE /\ sink' = << >>
    /\ statsIsOpen' = TRUE /\ stats' = << >>
    /\ networkBuffer' = NewChars(networkBytes)
    /\ playerBuffer' = NewChars(playerBytes)
    /\ IF locFileOk
       THEN /\ m_saw' = locFile
            /\ networkLevel' = NetworkGain(0)
            /\ playerLevel' = PlayerGain(0)
            /\ levelArg' = 0
            /\ exited' = FALSE
       ELSE /\ exited' = TRUE
            /\ UNCHANGED <<m_saw, gainVars>>
    /\ UNCHANGED <<fileVars, now, nr_saw, nr_sawIndex, m_sawIndex, mix,
                   writtenSamples, pauseVars, pc, depth, localVars, calls,
                   histVars>>

\* Player::close, sink.close()
CloseSink(t) ==
    /\ CanCall(t)
    /\ calls' = calls + 1
    /\ sinkIsOpen' = FALSE
    /\ pc' = [pc EXCEPT ![t] = "L89"]
    /\ UNCHANGED <<exited, fileVars, opened, now, srcVars, bufVars, gainVars,
                   writtenSamples, pauseVars, sink, stats, statsIsOpen, depth,
                   localVars, histVars>>

\* Player::close, stats.close()
CloseStats(t) ==
    /\ ~exited /\ pc[t] = "L89"
    /\ statsIsOpen' = FALSE
    /\ pc' = [pc EXCEPT ![t] = "idle"]
    /\ UNCHANGED <<exited, fileVars, opened, now, srcVars, bufVars, gainVars,
                   writtenSamples, pauseVars, sink, stats, sinkIsOpen, depth,
                   localVars, calls, histVars>>

\* ------------------------------------------------------------ pause, setMixingLevel
\* Player::pause
Pause(t) ==
    /\ CanCall(t)
    /\ calls' = calls + 1
    /\ paused' = TRUE
    /\ timePaused' = now
    /\ pausedSample' = writtenSamples
    /\ UNCHANGED <<exited, fileVars, opened, now, srcVars, bufVars, gainVars,
                   writtenSamples, sinkVars, pc, depth, localVars, histVars>>

\* Player::setMixingLevel(k)
SetMixingLevel(t, k) ==
    /\ CanCall(t)
    /\ calls' = calls + 1
    /\ networkLevel' = NetworkGain(k)
    /\ playerLevel' = PlayerGain(k)
    /\ levelArg' = k
    /\ UNCHANGED <<exited, fileVars, opened, now, srcVars, bufVars,
                   writtenSamples, pauseVars, sinkVars, pc, depth, localVars, histVars>>

\* ------------------------------------------------------------ play
\* a call of play() from outside
PlayCall(t) ==
    /\ t \in Players
    /\ CanCall(t)
    /\ calls' = calls + 1
    /\ depth' = [depth EXCEPT ![t] = 1]
    /\ pc' = [pc EXCEPT ![t] = "L103"]
    /\ UNCHANGED <<exited, fileVars, opened, now, srcVars, bufVars, gainVars,
                   writtenSamples, pauseVars, sinkVars, localVars, histVars>>

\* paused = false;
\* networkRead = nr.read(networkBuffer, networkBytes)
L103(t) ==
    /\ ~exited /\ pc[t] = "L103"
    /\ paused' = FALSE
    /\ LET n == NrReadBytes(Len(nr_saw), nr_sawIndex, networkBytes)
       IN /\ networkRead' = [networkRead EXCEPT ![t] = n]
          /\ networkBuffer' =
                CopySamples(nr_saw, nr_sawIndex, n \div SampleBytes, networkBuffer)
          /\ nr_sawIndex' = Advance(nr_sawIndex, n \div SampleBytes)
          /\ delivered' = [delivered EXCEPT
                !.net = @ \o Samples(networkBuffer', n \div SampleBytes)]
    /\ pc' = [pc EXCEPT ![t] = "L106"]
    /\ UNCHANGED <<exited, fileVars, opened, now, nr_saw, m_saw, m_sawIndex,
                   playerBuffer, mix, gainVars, writtenSamples, timePaused,
                   pausedSample, sinkVars, depth, playerRead, netGainRead, calls, eos>>

\* the size of the mix allocation and of the write, 2 * (networkRead + playerRead)
MixSize(nBytes, lBytes) == 2 * (nBytes + lBytes)

\* the samples one cycle adds to writtenSamples
CycleSamples(nBytes, lBytes) ==
    ToInt16((lBytes \div SampleBytes) + (nBytes \div SampleBytes))

\* playerRead = read(playerBuffer, playerBytes);
\* mix = new char[2 * (networkRead + playerRead)];
\* writtenSamples += (int16_t)(playerRead / 2 + networkRead / 2)
L106(t) ==
    /\ ~exited /\ pc[t] = "L106"
    /\ LET n == PlayerReadBytes(Len(m_saw), m_sawIndex, playerBytes)
       IN /\ playerRead' = [playerRead EXCEPT ![t] = n]
          /\ playerBuffer' =
                CopySamples(m_saw, m_sawIndex, n \div SampleBytes, playerBuffer)
          /\ m_sawIndex' = Advance(m_sawIndex, n \div SampleBytes)
          /\ delivered' = [delivered EXCEPT
                !.loc = @ \o Samples(playerBuffer', n \div SampleBytes)]
          /\ mix' = NewChars(MixSize(networkRead[t], n))
          /\ writtenSamples' =
                AddInt32(writtenSamples, CycleSamples(networkRead[t], n))
    /\ pc' = [pc EXCEPT ![t] = "L114"]
    /\ UNCHANGED <<exited, fileVars, opened, now, nr_saw, nr_sawIndex, m_saw,
                   networkBuffer, gainVars, pauseVars, sinkVars, depth,
                   networkRead, netGainRead, calls, eos>>

\* the network loop
L114(t) ==
    /\ ~exited /\ pc[t] = "L114"
    /\ mix' = NetworkLoop(mix, networkBuffer, networkRead[t], networkLevel)
    /\ netGainRead' = [netGainRead EXCEPT ![t] = networkLevel]
    /\ pc' = [pc EXCEPT ![t] = "L120"]
    /\ UNCHANGED <<exited, fileVars, opened, now, srcVars, networkBuffer,
                   playerBuffer, gainVars, writtenSamples, pauseVars, sinkVars,
                   depth, networkRead, playerRead, calls, histVars>>

\* the player loop
L120(t) ==
    /\ ~exited /\ pc[t] = "L120"
    /\ mix' = PlayerLoop(mix, playerBuffer, playerRead[t], playerLevel)
    /\ pc' = [pc EXCEPT ![t] = "L127"]
    /\ UNCHANGED <<exited, fileVars, opened, now, srcVars, networkBuffer,
                   playerBuffer, gainVars, writtenSamples, pauseVars, sinkVars,
                   depth, localVars, calls, histVars>>

\* the record stats << elapsed << ", " << writtenSamples appends
StatsRecord(elapsed, n) == [ms |-> elapsed, samples |-> n]

\* what a stream holds after operator<< or write(): nothing reaches a stream
\* that is not open
Written(isOpen, old, new) == IF isOpen THEN new ELSE old

\* play() ends the chain of self-calls: every activation returns
Returned(t) ==
    /\ depth' = [depth EXCEPT ![t] = 0]
    /\ pc' = [pc EXCEPT ![t] = "idle"]

\* stats << ...; stats.flush();
\* sink.write(mix, 2 * (networkRead + playerRead)); sink.flush();
\* if (playerRead == 0 && networkRead == 0) return;
L127(t) ==
    /\ ~exited /\ pc[t] = "L127"
    /\ stats' = Written(statsIsOpen, stats,
                        Append(stats, StatsRecord(now, writtenSamples)))
    /\ sink' = Written(sinkIsOpen, sink,
                       sink \o WrittenBytes(mix, MixSize(networkRead[t], playerRead[t])))
    /\ IF playerRead[t] = 0 /\ networkRead[t] = 0
       THEN /\ Returned(t)
            /\ eos' = TRUE
       ELSE /\ pc' = [pc EXCEPT ![t] = "L137"]
            /\ depth' = depth
            /\ eos' = eos
    /\ UNCHANGED <<exited, fileVars, opened, now, srcVars, bufVars, gainVars,
                   writtenSamples, pauseVars, sinkIsOpen, statsIsOpen,
                   localVars, calls, delivered>>

\* a loop that never calls itself: play() returns after one cycle
L137Stops(t) ==
    /\ ~exited /\ pc[t] = "L137"
    /\ Returned(t)
    /\ UNCHANGED <<exited, fileVars, opened, now, srcVars, bufVars, gainVars,
                   writtenSamples, pauseVars, sinkVars, localVars, calls, histVars>>
\* if (!paused) play();
L137(t) ==
    /\ ~exited /\ pc[t] = "L137"
    /\ IF ~paused
       THEN /\ depth' = [depth EXCEPT ![t] = depth[t] + 1]
            /\ pc' = [pc EXCEPT ![t] = "L103"]
       ELSE Returned(t)
    /\ UNCHANGED <<exited, fileVars, opened, now, srcVars, bufVars, gainVars,
                   writtenSamples, pauseVars, sinkVars, localVars, calls, histVars>>

PlayStep(t) ==
    \/ L103(t) \/ L106(t) \/ L114(t) \/ L120(t) \/ L127(t) \/ L137(t)

Next ==
    \/ Tick
    \/ \E t \in Threads :
          \/ Open(t)
          \/ CloseSink(t)
          \/ CloseStats(t)
          \/ Pause(t)
          \/ \E k \in Levels : SetMixingLevel(t, k)
          \/ PlayCall(t)
          \/ PlayStep(t)

Spec == Init /\ [][Next]_vars

\* ------------------------------------------------------------ claims
\* thread t takes a step of the play() it is inside
PlayStepOf(t) == depth[t] > 0 /\ pc'[t] # pc[t]

\* C1: play() returns immediately: between its call and its return the
\* calling thread reads no source and writes no sink.
C1_PlayDoesNoCallerIO ==
    [][\A t \in Threads :
          PlayStepOf(t) =>
             /\ nr_sawIndex' = nr_sawIndex
             /\ m_sawIndex' = m_sawIndex
             /\ sink' = sink
             /\ stats' = stats]_vars

\* C2: after a pause() issued while the loop runs, the loop finishes at most
\* the cycle in flight: no cycle is started by the loop itself (a self-call,
\* depth > 1) while the pause request stands.
C2_PauseStopsLoop ==
    [][\A t \in Threads :
          (PlayStepOf(t) /\ pc[t] = "L103" /\ depth[t] > 1) => ~paused]_vars

\* C3: pause/resume preserves position: each cursor stays within 0..N and
\* never decreases, the samples read so far are exactly the first `cursor`
\* samples of the source in order (a resumed play() continues at the sample
\* where the previous cycle stopped, nothing replayed or skipped), and at EOS
\* the samples read are the N samples of the source.
C3_CursorInv ==
    /\ nr_sawIndex \in 0..Len(nr_saw)
    /\ m_sawIndex \in 0..Len(m_saw)
    /\ delivered.net = SubSeq(nr_saw, 1, nr_sawIndex)
    /\ delivered.loc = SubSeq(m_saw, 1, m_sawIndex)
    /\ (nr_sawIndex = Len(nr_saw) => Len(delivered.net) = Len(nr_saw))
    /\ (m_sawIndex = Len(m_saw) => Len(delivered.loc) = Len(m_saw))
C3_PositionPreserved ==
    /\ []C3_CursorInv
    /\ [][nr_sawIndex' >= nr_sawIndex /\ m_sawIndex' >= m_sawIndex]_vars
\* a play() called after a pause() has resumed the network source at sample
\* `samples` and read it to its end
C3_Witness ==
    /\ pausedSample # Undef
    /\ depth[1] = 1 /\ pc[1] = "L106"
    /\ Len(nr_saw) = MaxNet
    /\ nr_sawIndex = MaxNet
    /\ networkRead[1] = (MaxNet - samples) * SampleBytes
    /\ networkRead[1] > 0

\* C4: once both sources have returned 0 bytes in the same cycle, nothing more
\* is written to the output sink or to the stats sink.
C4_NoWriteAfterEos ==
    [][eos => (sink' = sink /\ stats' = stats)]_vars

\* close() has been called: its first statement, sink.close(), has run
CloseCalled == opened /\ ~sinkIsOpen
\* C5: after close() has been called nothing is written to the output sink or
\* to the stats sink.
C5_NoWriteAfterClose ==
    [][CloseCalled => (sink' = sink /\ stats' = stats)]_vars

\* the bytes of one stereo frame of 16-bit samples
FrameBytes == 2 * SampleBytes
\* thread t executes the write of its cycle to an open output sink
SinkWriteOf(t) == PlayStepOf(t) /\ pc[t] = "L127" /\ sinkIsOpen
\* the bytes a step appends to the output sink
Appended == SubSeq(sink', Len(sink) + 1, Len(sink'))

\* C6: a cycle whose reads yield nSamples and lSamples appends exactly
\* max(nSamples, lSamples) stereo frames to the output sink.
C6_MixingLength ==
    [][\A t \in Threads :
          SinkWriteOf(t) =>
             Len(sink') - Len(sink) =
                FrameBytes * Max(networkRead[t] \div SampleBytes,
                                 playerRead[t] \div SampleBytes)]_vars

\* round(num / den), halves away from zero
Round(num, den) ==
    IF num >= 0 THEN (2 * num + den) \div (2 * den)
    ELSE -((2 * (-num) + den) \div (2 * den))
\* clamp to the signed 16-bit range
Clamp16(x) == IF x > 32767 THEN 32767 ELSE IF x < -32768 THEN -32768 ELSE x
\* sample i of a cycle's read of n samples, silence at or beyond n
SampleOrSilence(buf, n, i) == IF i <= n THEN SampleOf(buf[2 * i - 1], buf[2 * i]) ELSE 0
\* the mixed sample i of thread t's cycle
Mixed(t, i) ==
    Clamp16(Round(
        networkLevel * SampleOrSilence(networkBuffer, networkRead[t] \div SampleBytes, i)
        + playerLevel * SampleOrSilence(playerBuffer, playerRead[t] \div SampleBytes, i),
        GainDen))
\* byte p (from 1) of the frames (mixed, mixed) of thread t's cycle
FrameByte(t, p) ==
    LET m == Mixed(t, ((p - 1) \div FrameBytes) + 1)
    IN IF p % 2 = 1 THEN LoByte(m) ELSE HiByte(m)

\* C7: frame i of a cycle is (mixed, mixed) with mixed = round(networkGain *
\* networkSample[i] + localGain * localSample[i]) on 16-bit samples, clamped,
\* a source counting as 0 at or beyond its available count.
C7_MixFormula ==
    [][\A t \in Threads :
          SinkWriteOf(t) =>
             Appended =
                [p \in 1..(FrameBytes * Max(networkRead[t] \div SampleBytes,
                                            playerRead[t] \div SampleBytes))
                   |-> FrameByte(t, p)]]_vars

\* C8: for every level passed to setMixingLevel, in range or not, the gains
\* sum to 1 and lie in [0,1]; level <= -1 gives localGain 0, level >= 1 gives
\* networkGain 0, level 0 gives 0.5 and 0.5.
C8_GainLaw ==
    levelArg # Undef =>
       /\ networkLevel + playerLevel = GainDen
       /\ networkLevel \in 0..GainDen
       /\ playerLevel \in 0..GainDen
       /\ (levelArg <= -1 => playerLevel = 0)
       /\ (levelArg >= 1 => networkLevel = 0)
       /\ (levelArg = 0 => 2 * networkLevel = GainDen /\ 2 * playerLevel = GainDen)
\* setMixingLevel has been called with a level above 1.0
C8_Witness == levelArg # Undef /\ levelArg > 1 /\ networkLevel = 0 /\ calls > 0

\* C9: the two gains a cycle mixes with come from the same setMixingLevel
\* call: the network gain the network loop used and the local gain the
\* player loop uses sum to 1.
C9_NoTornGains ==
    [][\A t \in Threads :
          (PlayStepOf(t) /\ pc[t] = "L120") =>
             netGainRead[t] + playerLevel = GainDen]_vars

\* C10: the stats records are non-decreasing in elapsed milliseconds and in
\* cumulative sample count.
C10_StatsMonotone ==
    \A i \in 1..(Len(stats) - 1) :
       /\ stats[i].ms <= stats[i + 1].ms
       /\ stats[i].samples <= stats[i + 1].samples

\* the cumulative count of the last stats record, 0 when none was written
\* since open
LastCount == IF stats = << >> THEN 0 ELSE stats[Len(stats)].samples
\* C11: a completed cycle appends exactly one stats record, and its cumulative
\* sample count is the previous record's count (0 at open) plus the cycle's
\* mixing length max(nSamples, lSamples).
C11_StatsCount ==
    [][\A t \in Threads :
          (PlayStepOf(t) /\ pc[t] = "L127" /\ statsIsOpen) =>
             /\ Len(stats') = Len(stats) + 1
             /\ stats'[Len(stats')].samples =
                   LastCount + Max(networkRead[t] \div SampleBytes,
                                   playerRead[t] \div SampleBytes)]_vars

\* ------------------------------------------------------------ a second caller of play
\* a call of play() from a second thread: play() has no guard on the playback
\* state, the call enters the body like any other
PlayCallOther(t) ==
    /\ t \notin Players
    /\ CanCall(t)
    /\ calls' = calls + 1
    /\ depth' = [depth EXCEPT ![t] = 1]
    /\ pc' = [pc EXCEPT ![t] = "L103"]
    /\ UNCHANGED <<exited, fileVars, opened, now, srcVars, bufVars, gainVars,
                   writtenSamples, pauseVars, sinkVars, localVars, histVars>>

NextTwoPlayers ==
    \/ Next
    \/ \E t \in Threads : PlayCallOther(t)

\* the player with play() callable from both threads
SpecTwoPlayers == Init /\ [][NextTwoPlayers]_vars

\* the threads that are inside play()
Pumping == {t \in Threads : depth[t] > 0}
\* C12: play() is idempotent while Playing: a play() called while a loop is
\* running starts no second loop, at most one loop runs at any time.
C12_SingleLoop == Cardinality(Pumping) <= 1

\* the engine is Paused: a pause() has recorded its mark, no play() has cleared
\* the flag since, and no loop is running
AlreadyPaused == paused /\ timePaused # Undef /\ \A t \in Threads : depth[t] = 0
\* C13: pause() is a no-op when already Paused: a second pause() leaves the
\* playback state, the source cursors, the cumulative sample count and the
\* pause mark (pause time, paused sample count) of the first pause() unchanged.
C13_PauseNoOp ==
    [][(AlreadyPaused /\ \E t \in Threads : Pause(t)) =>
          /\ paused' = paused
          /\ nr_sawIndex' = nr_sawIndex /\ m_sawIndex' = m_sawIndex
          /\ writtenSamples' = writtenSamples
          /\ timePaused' = timePaused
          /\ pausedSample' = pausedSample]_vars

\* C14: close() goes on to stats.close() whatever sink.close() did, and over
\* any sequence of close() calls a close is attempted at most once per sink:
\* sink.close() and stats.close() run only on a stream no close() has closed
\* before.
C14_CloseOncePerSink ==
    [][\A t \in Threads :
          /\ CloseSink(t) => (sinkIsOpen /\ pc'[t] = "L89")
          /\ CloseStats(t) => statsIsOpen]_vars

\* one of the two input files cannot be opened
MissingInput == ~netFileOk \/ ~locFileOk
\* C15: when an input source cannot be opened, open() comes back to its caller
\* with the engine un-started: the process is not terminated and no cycle runs.
C15_OpenRecoverable ==
    (opened /\ MissingInput) => (~exited /\ \A t \in Threads : depth[t] = 0)

\* ------------------------------------------------------------ the reads on their own
\* the sizes a caller may pass as maxBytes for a buffer of networkBytes cells
ReadSizes == 0..networkBytes

\* nr.read(networkBuffer, maxBytes), called for its own sake
NetRead(t, maxBytes) ==
    /\ ~exited /\ opened /\ pc[t] = "idle"
    /\ LET n == NrReadBytes(Len(nr_saw), nr_sawIndex, maxBytes)
       IN /\ networkRead' = [networkRead EXCEPT ![t] = n]
          /\ networkBuffer' =
                CopySamples(nr_saw, nr_sawIndex, n \div SampleBytes, networkBuffer)
          /\ nr_sawIndex' = Advance(nr_sawIndex, n \div SampleBytes)
          /\ delivered' = [delivered EXCEPT
                !.net = @ \o Samples(networkBuffer', n \div SampleBytes)]
    /\ UNCHANGED <<exited, fileVars, opened, now, nr_saw, m_saw, m_sawIndex,
                   playerBuffer, mix, gainVars, writtenSamples, pauseVars,
                   sinkVars, pc, depth, playerRead, netGainRead, calls, eos>>

\* read(playerBuffer, maxBytes), called for its own sake
LocRead(t, maxBytes) ==
    /\ ~exited /\ opened /\ pc[t] = "idle"
    /\ LET n == PlayerReadBytes(Len(m_saw), m_sawIndex, maxBytes)
       IN /\ playerRead' = [playerRead EXCEPT ![t] = n]
          /\ playerBuffer' =
                CopySamples(m_saw, m_sawIndex, n \div SampleBytes, playerBuffer)
          /\ m_sawIndex' = Advance(m_sawIndex, n \div SampleBytes)
          /\ delivered' = [delivered EXCEPT
                !.loc = @ \o Samples(playerBuffer', n \div SampleBytes)]
    /\ UNCHANGED <<exited, fileVars, opened, now, nr_saw, nr_sawIndex, m_saw,
                   networkBuffer, mix, gainVars, writtenSamples, pauseVars,
                   sinkVars, pc, depth, networkRead, netGainRead, calls, eos>>

NextRead ==
    \E t \in Threads :
       \/ Open(t)
       \/ \E maxBytes \in ReadSizes : NetRead(t, maxBytes)
       \/ \E maxBytes \in ReadSizes : LocRead(t, maxBytes)

\* the two sources read with every maxBytes a caller may pass
SpecRead == Init /\ [][NextRead]_vars

\* what C16 says of one read: ret bytes returned for maxBytes, the cursor
\* going from idx to idxAfter in a source of size samples
ReadContract(ret, maxBytes, idx, idxAfter, size) ==
    /\ ret = 0 => idx = size
    /\ idx = size => (ret = 0 /\ idxAfter = idx)
    /\ idx # size =>
          /\ ret % 2 = 0
          /\ ret <= Min(Min(maxBytes, blockSize), 2 * (size - idx))
          /\ idxAfter = idx + ret \div 2
\* C16: for every maxBytes and cursor position a read returns 0 only at end of
\* stream (cursor = length), where it returns 0 for good; otherwise it returns
\* an even byte count <= min(maxBytes, 32768, 2 * samplesRemaining) and
\* advances the cursor by bytesReturned / 2.
C16_ReadZeroOnlyAtEos ==
    [][\A t \in Threads, maxBytes \in ReadSizes :
          /\ NetRead(t, maxBytes) =>
                ReadContract(networkRead'[t], maxBytes, nr_sawIndex,
                             nr_sawIndex', Len(nr_saw))
          /\ LocRead(t, maxBytes) =>
                ReadContract(playerRead'[t], maxBytes, m_sawIndex,
                             m_sawIndex', Len(m_saw))]_vars

\* ------------------------------------------------------------ a player nobody pauses
NextNoPause ==
    \/ Tick
    \/ \E t \in Threads :
          \/ Open(t)
          \/ CloseSink(t)
          \/ CloseStats(t)
          \/ PlayCall(t)
          \/ PlayStep(t)

\* no pause() is ever called; a thread that is inside play() keeps running
\* (the sleep of the network read ends, the thread is scheduled)
SpecNoPause ==
    /\ Init
    /\ [][NextNoPause]_vars
    /\ \A t \in Threads : WF_vars(PlayStep(t))

\* the loop of thread t has stopped after the cycle in which both reads
\* returned 0, both sources read to their end
StoppedAtEos(t) ==
    /\ depth[t] = 0 /\ pc[t] = "idle"
    /\ eos
    /\ nr_sawIndex = Len(nr_saw) /\ m_sawIndex = Len(m_saw)
\* a read of the loop that returned bytes moved its cursor forward, and a cycle
\* after which the loop goes on had a read that returned bytes
CycleAdvances(t) ==
    /\ (PlayStepOf(t) /\ pc[t] = "L103" /\ networkRead'[t] > 0) =>
          nr_sawIndex' > nr_sawIndex
    /\ (PlayStepOf(t) /\ pc[t] = "L106" /\ playerRead'[t] > 0) =>
          m_sawIndex' > m_sawIndex
    /\ (PlayStepOf(t) /\ pc[t] = "L127" /\ pc'[t] = "L137") =>
          (networkRead[t] > 0 \/ playerRead[t] > 0)
\* C17: with two finite sources and no pause(), a started loop eventually
\* reaches the cycle where both reads return 0 and stops, and every cycle
\* before that one strictly advances at least one source cursor.
C17_Terminates ==
    /\ \A t \in Threads : (depth[t] > 0) ~> StoppedAtEos(t)
    /\ [][\A t \in Threads : CycleAdvances(t)]_vars
\* a loop has run three cycles unpaused, read both sources to their end and
\* stopped
C17_Witness ==
    /\ timePaused = Undef
    /\ StoppedAtEos(1)
    /\ Len(nr_saw) = MaxNet /\ Len(m_saw) = MaxLoc
    /\ calls = 1

\* C18: the two reads of a cycle are independent: while the network read of a
\* cycle (with its sleep) has not returned yet, the local read of that cycle
\* can already be made, it does not wait for the network read.
C18_ReadsIndependent ==
    \A t \in Threads : (depth[t] > 0 /\ pc[t] = "L103") => ENABLED L106(t)

\* C19: the loop is iterative, not self-recursive: however many cycles a
\* stream needs, no thread has more than one play() activation at a time.
C19_DepthBounded == \A t \in Threads : depth[t] <= 1

\* C20: every byte a cycle writes to the output sink was stored by that
\* cycle's mixing loops, and the player loop's += reads only cells the
\* network loop has stored to, whatever the two read counts are.
C20_NoUninitBytes ==
    [][\A t \in Threads :
          /\ SinkWriteOf(t) =>
                \A p \in 1..Len(Appended) : Appended[p] # Undef
          /\ (PlayStepOf(t) /\ pc[t] = "L120") =>
                \A p \in 1..(2 * playerRead[t]) : mix[p] # Undef]_vars

====
